---- MODULE Spec2Model ----
(***************************************************************************)
(* Session state machine of the authenticated, auto-reconnecting           *)
(* RPC-over-WebSocket client of server/src/services/nitroliteRPC.js.       *)
(* The file holds two copies of the client, NitroliteRPCClient ("N") and   *)
(* ServerWebSocketClient ("S"); impl selects the copy a behaviour runs.    *)
(* One action is one turn of the Node event loop: a public call, a socket  *)
(* event or a timer callback, together with every promise continuation it  *)
(* makes runnable (signing is computed in the same turn).  The awaits that *)
(* span turns are the handshake promise, the get_channels request made on  *)
(* handshake success and the on-chain client lookup that may follow it.    *)
(***************************************************************************)
EXTENDS Integers, Sequences, FiniteSets, TLC

\* Bounds of the exploration.
MaxSockets == 2
MaxRequests == 2
NumObservers == 2
MaxCalls == 3
NumRooms == 2
NumPlayers == 2
NumClients == 2
MaxWholeDigits == 2

\* Program constants.
maxReconnectAttempts == 5
reconnectDelay == 1000

Sockets == 1..MaxSockets
\* What this.ws holds when it refers to a socket that has been closed.
Dead == -1
ReqIds == 1..MaxRequests
\* The callbacks registered with onStatusChange, in registration order.
Observers == 1..NumObservers
\* The callbacks registered with onMessage, in registration order.
MsgObservers == 1..NumObservers

WSStatus == {"connected", "connecting", "disconnected", "reconnecting",
             "reconnect_failed", "auth_failed", "authenticating"}

VARIABLES
    impl,              \* "N" = NitroliteRPCClient, "S" = ServerWebSocketClient
    urlValid,          \* FALSE: new WebSocket(url) throws
    status,            \* this.status
    ws,                \* this.ws: 0 = null, Dead, or a socket
    created,           \* number of sockets constructed so far
    rs,                \* readyState of every socket slot ("none" = free,
                       \* "closed" = close event delivered, handshake unfinished)
    listeners,         \* per socket, the authMessageHandlers registered on it
    hs,                \* per socket, the authenticate() call of its open handler
    pendingRequests,   \* this.pendingRequests (its keys)
    nextRequestId,     \* this.nextRequestId
    reconnectAttempts, \* this.reconnectAttempts
    timerQ,            \* scheduled setTimeout timers, in the order they were set
    pingArmed,         \* this.pingInterval is scheduled
    pingIntervals,     \* number of setInterval timers that are scheduled
    nitroliteClient,   \* this.nitroliteClient is set
    crashed,           \* an exception escaped a callback: the process is gone
    settleCount,       \* per request, how often resolve/reject was invoked
    outcome,           \* per request, how it was settled first
    issuedIds,         \* the request IDs sendRequest handed out, in order
    thrown,            \* the error the handshake signer threw in the last turn
    delivered,         \* resolve/reject calls of the last turn: <<id, how, value>>
    assigned,          \* the values setStatus assigned in the last turn, in order
    seen,              \* per status observer, the values it was called with
    forwarded,         \* per message observer, the frames it was called with
    sent,              \* frames put on the wire by the last turn
    lastOp,            \* the operation the last turn ran
    lastResult,        \* what the last sendRequest call returned or threw
    envOk,             \* SERVER_PRIVATE_KEY and WS_URL are set in process.env
    rpcClient,         \* the module variable rpcClient / wsClient: 0 = null
    instances,         \* number of client objects constructed
    initConnects,      \* number of connect() calls made by the initializer
    initPc,            \* per call of the initializer, where it is suspended
    initRet,           \* per call of the initializer, the value it returned
    connections,       \* game server: the connections Map, in insertion order
    rooms,             \* game server: roomManager.rooms
    gErrors,           \* game server: sendError calls of the last turn <<ws, code>>
    gBroadcasts,       \* game server: broadcastToRoom calls of the last turn
    gOp,               \* game server: the handler the last turn ran
    tAddr,             \* token units: the token address given
    tAmount,           \* token units: the amount in contract units (its digits)
    tDecimals,         \* token units: what getTokenDecimals returned
    tText,             \* token units: what formatTokenUnits returned
    tParsed,           \* token units: what parseTokenUnits returned
    tOp                \* token units: the function applied last

vars == <<impl, urlValid, status, ws, created, rs, listeners, hs,
          pendingRequests, nextRequestId, reconnectAttempts, timerQ,
          pingArmed, pingIntervals, nitroliteClient, crashed, settleCount, outcome,
          issuedIds, thrown, delivered, assigned, seen, forwarded, sent, lastOp,
          lastResult, envOk, rpcClient, instances, initConnects, initPc, initRet,
          connections, rooms, gErrors, gBroadcasts, gOp,
          tAddr, tAmount, tDecimals, tText, tParsed, tOp>>

\* The variables of the token unit functions.
tokenVars == <<tAddr, tAmount, tDecimals, tText, tParsed, tOp>>

\* The variables of the game server.
gameVars == <<connections, rooms, gErrors, gBroadcasts, gOp>>

\* The variables of the module-level initializer.
initVars == <<envOk, rpcClient, instances, initConnects, initPc, initRet>>

\* The variables of the client object and of its run.
sessionVars == <<impl, urlValid, status, ws, created, rs, listeners, hs,
                 pendingRequests, nextRequestId, reconnectAttempts, timerQ,
                 pingArmed, pingIntervals, nitroliteClient, crashed, settleCount,
                 outcome, issuedIds, thrown, delivered, assigned, seen, forwarded,
                 sent, lastOp, lastResult>>

\* The calls of the initializer.
Calls == 1..MaxCalls

NoHandshake == [phase |-> "none", settled |-> FALSE, chanReq |-> 0]

\* The client object at the start of a turn.
Cur ==
    [impl |-> impl, status |-> status, ws |-> ws, created |-> created, rs |-> rs,
     listeners |-> listeners, hs |-> hs, pendingRequests |-> pendingRequests,
     nextRequestId |-> nextRequestId, reconnectAttempts |-> reconnectAttempts,
     timerQ |-> timerQ, pingArmed |-> pingArmed,
     pingIntervals |-> pingIntervals,
     nitroliteClient |-> nitroliteClient,
     crashed |-> crashed, settleCount |-> settleCount, outcome |-> outcome,
     issuedIds |-> issuedIds, thrown |-> "none", delivered |-> <<>>,
     assigned |-> <<>>, seen |-> [o \in Observers |-> <<>>],
     forwarded |-> [o \in MsgObservers |-> <<>>],
     sent |-> <<>>, lastResult |-> "none"]

\* A closed socket whose handshake attempt has no timer, no continuation and
\* no registered handler left is unreachable: its slot is free again.
Finished(st, s) ==
    /\ st.rs[s] = "closed"
    /\ st.hs[s].phase \notin {"chan", "onchain"}
    /\ \A i \in 1..Len(st.timerQ) : st.timerQ[i] # <<"auth", s>>
    /\ \A t \in Sockets : \A i \in 1..Len(st.listeners[t]) : st.listeners[t][i] # s

collect(st) ==
    [st EXCEPT !.rs = [s \in Sockets |-> IF Finished(st, s) THEN "none" ELSE st.rs[s]],
               !.hs = [s \in Sockets |-> IF Finished(st, s) THEN NoHandshake ELSE st.hs[s]]]

\* The client object at the end of a turn.
Commit(u, op) ==
    \E t \in {collect(u)} :
    /\ status' = t.status
    /\ ws' = t.ws
    /\ created' = t.created
    /\ rs' = t.rs
    /\ listeners' = t.listeners
    /\ hs' = t.hs
    /\ pendingRequests' = t.pendingRequests
    /\ nextRequestId' = t.nextRequestId
    /\ reconnectAttempts' = t.reconnectAttempts
    /\ timerQ' = t.timerQ
    /\ pingArmed' = t.pingArmed
    /\ pingIntervals' = t.pingIntervals
    /\ nitroliteClient' = t.nitroliteClient
    /\ crashed' = t.crashed
    /\ settleCount' = t.settleCount
    /\ outcome' = t.outcome
    /\ issuedIds' = t.issuedIds
    /\ thrown' = t.thrown
    /\ delivered' = t.delivered
    /\ assigned' = t.assigned
    /\ seen' = t.seen
    /\ forwarded' = t.forwarded
    /\ sent' = t.sent
    /\ lastResult' = t.lastResult
    /\ lastOp' = op
    /\ UNCHANGED <<impl, urlValid>>
    /\ UNCHANGED initVars
    /\ UNCHANGED gameVars
    /\ UNCHANGED tokenVars

\* No call of the initializer has been made.
InitModule ==
    /\ rpcClient = 0
    /\ instances = 0
    /\ initConnects = 0
    /\ initPc = [c \in Calls |-> "idle"]
    /\ initRet = [c \in Calls |-> 0]

\* The client object after its constructor.
InitSession ==
    /\ impl \in {"N", "S"}
    /\ urlValid \in BOOLEAN
    /\ status = "disconnected"
    /\ ws = 0
    /\ created = 0
    /\ rs = [s \in Sockets |-> "none"]
    /\ listeners = [s \in Sockets |-> <<>>]
    /\ hs = [s \in Sockets |-> NoHandshake]
    /\ pendingRequests = {}
    /\ nextRequestId = 1
    /\ reconnectAttempts = 0
    /\ timerQ = <<>>
    /\ pingArmed = FALSE
    /\ pingIntervals = 0
    /\ nitroliteClient = FALSE
    /\ crashed = FALSE
    /\ settleCount = [i \in ReqIds |-> 0]
    /\ outcome = [i \in ReqIds |-> "none"]
    /\ issuedIds = <<>>
    /\ thrown = "none"
    /\ delivered = <<>>
    /\ assigned = <<>>
    /\ seen = [o \in Observers |-> <<>>]
    /\ forwarded = [o \in MsgObservers |-> <<>>]
    /\ sent = <<>>
    /\ lastOp = "init"
    /\ lastResult = "none"

\* Game server: identifiers of rooms, player addresses and client sockets.
RoomIds == 1..NumRooms
Players == 1..NumPlayers
Clients == 1..NumClients

\* A room ID the room manager does not know.
NoRoom == [exists |-> FALSE, host |-> 0, guest |-> 0, gameState |-> "none"]

\* The game server with no connection and no room.
InitGame ==
    /\ connections = <<>>
    /\ rooms = [r \in RoomIds |-> NoRoom]
    /\ gErrors = <<>>
    /\ gBroadcasts = <<>>
    /\ gOp = "init"

\* No token function has been applied.
InitTokens ==
    /\ tAddr = <<>>
    /\ tAmount = <<"0">>
    /\ tDecimals = 0
    /\ tText = <<>>
    /\ tParsed = <<>>
    /\ tOp = "init"

Init ==
    /\ envOk = TRUE
    /\ InitModule
    /\ InitSession
    /\ InitGame
    /\ InitTokens

----------------------------------------------------------------------------
\* Helpers shared by the handlers.

\* setStatus that calls the observers only when the value differs.
setStatusNotifiesOnChange(st, v) ==
    [st EXCEPT !.status = v,
               !.assigned = Append(@, v),
               !.seen = IF st.status = v THEN @
                        ELSE [o \in Observers |-> Append(@[o], v)]]

\* this.status = status, then every onStatusChange callback is called with it.
setStatus(st, v) ==
    [st EXCEPT !.status = v,
               !.assigned = Append(@, v),
               !.seen = [o \in Observers |-> Append(@[o], v)]]

\* An exception that nothing catches (timer callback or async handler).
crash(st) == [st EXCEPT !.crashed = TRUE]

\* ws.close() of the library on socket s.
wsClose(st, s) ==
    IF s # Dead /\ st.rs[s] \in {"connecting", "open"}
    THEN [st EXCEPT !.rs[s] = "closing"] ELSE st

\* this.ws.readyState, ws not null.
readyState(st) == IF st.ws = Dead THEN "closed" ELSE st.rs[st.ws]

\* this.ws.send(x) returns normally: it throws on null and on CONNECTING.
CanSend(st) == st.ws # 0 /\ readyState(st) # "connecting"

\* this.ws.send(x) that returned normally: the frame leaves only if OPEN.
Transmit(st, f) ==
    IF readyState(st) = "open" THEN [st EXCEPT !.sent = Append(@, f)] ELSE st

\* this.ws.removeListener("message", authMessageHandler of attempt k), ws not null.
removeListener(st, k) ==
    IF st.ws = Dead THEN st
    ELSE [st EXCEPT !.listeners[st.ws] = SelectSeq(@, LAMBDA x : x # k)]

\* this.ws.on("message", authMessageHandler of attempt k), ws not null.
addListener(st, k) ==
    IF st.ws = Dead THEN st
    ELSE [st EXCEPT !.listeners[st.ws] = Append(@, k)]

\* resolve/reject of request id invoked.  The 10 s timer of a request that is
\* no longer in the table does nothing when it fires (has() is false), so it
\* is dropped from the queue here instead of being kept until it fires.
settle(st, id, how, value) ==
    [st EXCEPT !.delivered = Append(@, <<id, how, value>>),
               !.settleCount[id] = @ + 1,
               !.outcome[id] = IF st.settleCount[id] = 0 THEN how ELSE @,
               !.timerQ = SelectSeq(@, LAMBDA e : e # <<"req", id>>)]

\* setTimeout(cb, d): e names the callback.
setTimer(st, e) == [st EXCEPT !.timerQ = Append(@, e)]

\* clearTimeout(this.reconnectTimeout)
clearReconnectTimeout(st) ==
    [st EXCEPT !.timerQ = SelectSeq(@, LAMBDA e : e[1] # "reconnect")]

\* The timer at position i has fired (or is firing).
popTimer(st, i) ==
    [st EXCEPT !.timerQ = SubSeq(@, 1, i - 1) \o SubSeq(@, i + 1, Len(@))]

\* clearInterval(this.pingInterval): cancels the interval the field refers to.
clearPingInterval(st) ==
    IF st.pingArmed
    THEN [st EXCEPT !.pingArmed = FALSE, !.pingIntervals = @ - 1]
    ELSE st

\* startPingInterval without its clearInterval(this.pingInterval).
startPingIntervalKeepsOld(st) ==
    [st EXCEPT !.pingArmed = TRUE, !.pingIntervals = @ + 1]

\* clearInterval(this.pingInterval); this.pingInterval = setInterval(tick, 30000)
startPingInterval(st) ==
    [clearPingInterval(st) EXCEPT !.pingArmed = TRUE, !.pingIntervals = @ + 1]

\* handleReconnect with a delay that does not grow with the attempt.
handleReconnectFixedDelay(st) ==
    IF st.reconnectAttempts >= maxReconnectAttempts
    THEN setStatus(st, "reconnect_failed")
    ELSE LET a == setStatus([st EXCEPT !.reconnectAttempts = @ + 1], "reconnecting")
         IN setTimer(clearReconnectTimeout(a), <<"reconnect", reconnectDelay>>)

\* handleReconnect without its clearTimeout(this.reconnectTimeout).
handleReconnectKeepsTimer(st) ==
    IF st.reconnectAttempts >= maxReconnectAttempts
    THEN setStatus(st, "reconnect_failed")
    ELSE LET a == setStatus([st EXCEPT !.reconnectAttempts = @ + 1], "reconnecting")
             delay == reconnectDelay * a.reconnectAttempts
         IN setTimer(a, <<"reconnect", delay>>)

\* A reconnect timer carries the delay it was scheduled with.
handleReconnect(st) ==
    IF st.reconnectAttempts >= maxReconnectAttempts
    THEN setStatus(st, "reconnect_failed")
    ELSE LET a == setStatus([st EXCEPT !.reconnectAttempts = @ + 1], "reconnecting")
             delay == reconnectDelay * a.reconnectAttempts
         IN setTimer(clearReconnectTimeout(a), <<"reconnect", delay>>)

\* connect() whose early return tests CONNECTED only.
connectWhileConnecting(st) ==
    IF st.status = "connected"
    THEN st
    ELSE LET a == setStatus(st, "connecting") IN
         IF urlValid
         THEN LET s == CHOOSE x \in Sockets :
                             a.rs[x] = "none" /\ \A y \in 1..(x - 1) : a.rs[y] # "none"
              IN [a EXCEPT !.ws = s, !.rs[s] = "connecting", !.created = @ + 1]
         ELSE handleReconnect(setStatus(a, "disconnected"))

connect(st) ==
    IF st.status \in {"connected", "connecting"}
    THEN st
    ELSE LET a == setStatus(st, "connecting") IN
         IF urlValid
         THEN LET s == CHOOSE x \in Sockets :
                             a.rs[x] = "none" /\ \A y \in 1..(x - 1) : a.rs[y] # "none"
              IN [a EXCEPT !.ws = s, !.rs[s] = "connecting", !.created = @ + 1]
         ELSE handleReconnect(setStatus(a, "disconnected"))

\* close() that forgets clearTimeout(this.reconnectTimeout).
closeKeepsReconnect(st) ==
    LET a == clearPingInterval(st)
        b == IF a.ws # 0 THEN [wsClose(a, a.ws) EXCEPT !.ws = 0] ELSE a
    IN setStatus(b, "disconnected")

close(st) ==
    LET a == clearReconnectTimeout(clearPingInterval(st))
        b == IF a.ws # 0 THEN [wsClose(a, a.ws) EXCEPT !.ws = 0] ELSE a
    IN setStatus(b, "disconnected")

\* The close handler registered by connect().
closeHandler(st, s) ==
    LET a == [st EXCEPT !.rs[s] = "closed", !.listeners[s] = <<>>,
                        !.ws = IF @ = s THEN Dead ELSE @]
        b == setStatus(a, "disconnected")
    IN handleReconnect(clearPingInterval(b))

----------------------------------------------------------------------------
\* Handshake.

\* The catch block of the open handler with the counter reset of the try block.
authFailResetsAttempts(st) ==
    LET a == setStatus([st EXCEPT !.reconnectAttempts = 0], "auth_failed")
    IN IF a.ws = 0 THEN crash(a) ELSE wsClose(a, a.ws)

\* catch block of the open handler: the handshake promise was rejected.
authFail(st) ==
    LET a == setStatus(st, "auth_failed")
    IN IF a.ws = 0 THEN crash(a) ELSE wsClose(a, a.ws)

\* Rest of the open handler after await this.authenticate() returned.
authSuccess(st) ==
    LET a == IF st.impl = "S" THEN setStatus(st, "connected") ELSE st
    IN startPingInterval([a EXCEPT !.reconnectAttempts = 0])

\* reject(...) of the handshake promise of attempt k.
authRejected(st, k) ==
    IF st.hs[k].settled THEN st
    ELSE authFail([st EXCEPT !.hs[k].settled = TRUE])

\* resolve() of the handshake promise of attempt k; handleAuthResponse ends.
authResolved(st, k) ==
    LET a == [st EXCEPT !.hs[k].phase = "done", !.hs[k].chanReq = 0]
    IN IF st.hs[k].settled THEN a
       ELSE authSuccess([a EXCEPT !.hs[k].settled = TRUE])

\* catch block of handleAuthResponse.
authCatch(st, k) ==
    IF st.ws = 0 THEN crash(st) ELSE authRejected(removeListener(st, k), k)

\* The open handler registered by connect(), with authenticate() up to its
\* first suspension.
openHandler(st, s) ==
    LET a == setStatus([st EXCEPT !.rs[s] = "open"], "authenticating") IN
    IF a.ws = 0
    THEN authFail(a)
    ELSE LET b == setTimer([addListener(a, s)
                                EXCEPT !.hs[s] = [phase |-> "idle", settled |-> FALSE,
                                                  chanReq |-> 0]],
                           <<"auth", s>>)
         IN IF CanSend(b) THEN Transmit(b, "auth_request") ELSE authRejected(b, s)

----------------------------------------------------------------------------
\* Requests.

\* issueRequest that takes the ID without advancing the counter when signing
\* fails.
issueRequestReusesId(st, signOk) ==
    LET id == st.nextRequestId
        a == [st EXCEPT !.issuedIds = Append(@, id)]
    IN IF ~signOk
       THEN [settle(a, id, "send_error", <<"signing failed">>) EXCEPT !.lastResult = "send_error"]
       ELSE LET b == setTimer([a EXCEPT !.nextRequestId = @ + 1,
                                        !.pendingRequests = @ \cup {id}],
                              <<"req", id>>)
            IN IF CanSend(b)
               THEN [Transmit(b, "req") EXCEPT !.lastResult = "accepted"]
               ELSE [settle([b EXCEPT !.pendingRequests = @ \ {id}], id, "send_error",
                            <<"send failed">>)
                        EXCEPT !.lastResult = "send_error"]

\* The promise executor of sendRequest: ID, signature, table entry, timer, send.
issueRequest(st, signOk) ==
    LET id == st.nextRequestId
        a == [st EXCEPT !.nextRequestId = @ + 1, !.issuedIds = Append(@, id)]
    IN IF ~signOk
       THEN [settle(a, id, "send_error", <<"signing failed">>) EXCEPT !.lastResult = "send_error"]
       ELSE LET b == setTimer([a EXCEPT !.pendingRequests = @ \cup {id}],
                              <<"req", id>>)
            IN IF CanSend(b)
               THEN [Transmit(b, "req") EXCEPT !.lastResult = "accepted"]
               ELSE [settle([b EXCEPT !.pendingRequests = @ \ {id}], id, "send_error",
                            <<"send failed">>)
                        EXCEPT !.lastResult = "send_error"]

\* sendRequest that takes the request ID before it tests its preconditions.
sendRequestTakesIdFirst(st, signOk) ==
    LET a == [st EXCEPT !.nextRequestId = @ + 1] IN
    IF st.impl = "N"
    THEN IF st.ws = 0
         THEN [a EXCEPT !.lastResult = "not_initialized"]
         ELSE IF readyState(st) # "open"
         THEN [a EXCEPT !.lastResult = "not_open"]
         ELSE issueRequest(IF st.status = "authenticating"
                           THEN setStatus(st, "connected") ELSE st, signOk)
    ELSE IF st.ws = 0 \/ st.status # "connected"
         THEN [a EXCEPT !.lastResult = "not_connected"]
         ELSE issueRequest(st, signOk)

sendRequest(st, signOk) ==
    IF st.impl = "N"
    THEN IF st.ws = 0
         THEN [st EXCEPT !.lastResult = "not_initialized"]
         ELSE IF readyState(st) # "open"
         THEN [st EXCEPT !.lastResult = "not_open"]
         ELSE issueRequest(IF st.status = "authenticating"
                           THEN setStatus(st, "connected") ELSE st, signOk)
    ELSE IF st.ws = 0 \/ st.status # "connected"
         THEN [st EXCEPT !.lastResult = "not_connected"]
         ELSE issueRequest(st, signOk)

\* handleAuthResponse of attempt k resumes after its getChannelInfo() call
\* returned (how = "resolved", with the payload) or threw.
afterChannelInfo(st, k, how, payload) ==
    IF st.impl = "N"
    THEN IF how = "resolved" /\ payload = <<"none">> /\ ~st.nitroliteClient
         THEN [st EXCEPT !.hs[k].phase = "onchain"]
         ELSE authResolved(st, k)
    ELSE IF how = "resolved"
         THEN authResolved(st, k)
         ELSE authCatch([st EXCEPT !.hs[k].phase = "done", !.hs[k].chanReq = 0], k)

\* settleRequest that forgets this.pendingRequests.delete(requestId).
settleRequestKeepsEntry(st, id, how, payload) ==
    LET a == settle(st, id, how, payload)
        waiting == {k \in Sockets : a.hs[k].phase = "chan" /\ a.hs[k].chanReq = id}
    IN IF waiting = {} THEN a
       ELSE afterChannelInfo(a, CHOOSE k \in waiting : TRUE, how, payload)

\* Request id leaves the table and its caller is resolved or rejected.
settleRequest(st, id, how, payload) ==
    LET a == settle([st EXCEPT !.pendingRequests = @ \ {id}], id, how, payload)
        waiting == {k \in Sockets : a.hs[k].phase = "chan" /\ a.hs[k].chanReq = id}
    IN IF waiting = {} THEN a
       ELSE afterChannelInfo(a, CHOOSE k \in waiting : TRUE, how, payload)

\* new Error(`Error ${message.err[1]}: ${message.err[2]}`): the error has no
\* code property, its message text holds the code and the message.
errorOf(code, message) == <<"Error ", code, ": ", message>>

\* this.onMessageCallbacks.forEach((callback) => callback(message))
forward(st, frame) ==
    [st EXCEPT !.forwarded = [o \in MsgObservers |-> Append(@[o], frame)]]

\* handleMessage that resolves with res[1], the method name.
handleMessageResolvesMethod(st, kind, id, payload) ==
    LET a == forward(st, <<kind, id, payload>>) IN
        IF id \in a.pendingRequests
        THEN IF kind = "res" THEN settleRequest(a, id, "resolved", <<"method">>)
             ELSE IF kind = "err"
             THEN settleRequest(a, id, "rejected", errorOf(payload[1], payload[2]))
             ELSE a
        ELSE a

\* handleMessage that rejects with new Error(message.err[2]).
handleMessageErrMessageOnly(st, kind, id, payload) ==
    LET a == forward(st, <<kind, id, payload>>) IN
        IF id \in a.pendingRequests
        THEN IF kind = "res" THEN settleRequest(a, id, "resolved", payload)
             ELSE IF kind = "err"
             THEN settleRequest(a, id, "rejected", <<"Error: ", payload[2]>>)
             ELSE a
        ELSE a

\* handleMessage that settles every ID that was ever issued, without has().
handleMessageNoHasCheck(st, kind, id, payload) ==
    LET a == forward(st, <<kind, id, payload>>) IN
        IF id \in 1..(a.nextRequestId - 1)
        THEN IF kind = "res" THEN settleRequest(a, id, "resolved", payload)
             ELSE IF kind = "err"
             THEN settleRequest(a, id, "rejected", errorOf(payload[1], payload[2]))
             ELSE a
        ELSE a

\* handleMessage that calls the observers for responses and errors only.
handleMessageForwardsResponsesOnly(st, kind, id, payload) ==
    LET a == IF kind \in {"res", "err"} THEN forward(st, <<kind, id, payload>>)
             ELSE st IN
        IF id \in a.pendingRequests
        THEN IF kind = "res" THEN settleRequest(a, id, "resolved", payload)
             ELSE IF kind = "err"
             THEN settleRequest(a, id, "rejected", errorOf(payload[1], payload[2]))
             ELSE a
        ELSE a

\* handleMessage: every parsed frame goes to the onMessage callbacks first;
\* then a frame {res:[id, method, payload, ts]} (payload is
\* <<res[2]>>) or {err:[id, code, message, ts]} (payload is <<code, message>>).
handleMessage(st, kind, id, payload) ==
    LET a == forward(st, <<kind, id, payload>>) IN
        IF id \in a.pendingRequests
        THEN IF kind = "res" THEN settleRequest(a, id, "resolved", payload)
             ELSE IF kind = "err"
             THEN settleRequest(a, id, "rejected", errorOf(payload[1], payload[2]))
             ELSE a
        ELSE a

\* The verify envelopes, by the scheme their signature was made with.
VerifyFrames == {"auth_verify_eip712", "auth_verify_hash"}

\* The signer handed to createAuthVerifyMessage.  sig tells what the wallet
\* can do: "eip712" = signTypedData works, "fallback" = signTypedData throws
\* and signingKey.sign works, "fail" = both throw.  The error "both_failed"
\* is Error("Both EIP-712 and fallback signing failed: " + the message of the
\* EIP-712 error).
signChallenge(st, token, sig) ==
    IF st.impl = "N"
    THEN IF token = "bad"
         THEN [ok |-> FALSE, frame |-> "none", error |-> "no_challenge"]
         ELSE IF sig = "eip712"
         THEN [ok |-> TRUE, frame |-> "auth_verify_eip712", error |-> "none"]
         ELSE IF sig = "fallback"
         THEN [ok |-> TRUE, frame |-> "auth_verify_hash", error |-> "none"]
         ELSE [ok |-> FALSE, frame |-> "none", error |-> "both_failed"]
    ELSE IF sig = "fail"
         THEN [ok |-> FALSE, frame |-> "none", error |-> "hash_failed"]
         ELSE [ok |-> TRUE, frame |-> "auth_verify_hash", error |-> "none"]

\* handleAuthResponse of attempt k for one inbound frame.  token = "bad" is a
\* challenge whose token is empty or holds '[' or '{': the signer of
\* NitroliteRPCClient throws on it, the signer of ServerWebSocketClient
\* hashes and signs whatever payload it is given.
handleAuthResponse(st, k, kind, token, sig, reqSig) ==
    IF kind = "auth_challenge"
    THEN LET r == signChallenge(st, token, sig) IN
         IF ~r.ok
         THEN authCatch([st EXCEPT !.thrown = r.error], k)
         ELSE IF CanSend(st) THEN Transmit(st, r.frame) ELSE authCatch(st, k)
    ELSE IF kind = "auth_verify"
    THEN IF st.ws = 0
         THEN crash(st)
         ELSE LET a == removeListener(st, k)
                  b == IF st.impl = "N" THEN setStatus(a, "connected") ELSE a
                  c == sendRequest(b, reqSig)
              IN IF c.lastResult = "accepted"
                 THEN [c EXCEPT !.hs[k].phase = "chan",
                                !.hs[k].chanReq = b.nextRequestId]
                 ELSE afterChannelInfo(c, k, "threw", <<>>)
    ELSE IF kind = "err"
    THEN IF st.ws = 0 THEN crash(st) ELSE authRejected(removeListener(st, k), k)
    ELSE st

\* emit("message") calls the auth handlers that were registered on the socket.
RECURSIVE runListeners(_, _, _, _, _, _)
runListeners(st, ks, kind, token, sig, reqSig) ==
    IF ks = <<>> THEN st
    ELSE runListeners(handleAuthResponse(st, Head(ks), kind, token, sig, reqSig),
                      Tail(ks), kind, token, sig, reqSig)

\* A frame arrives on socket s: handleMessage first, then the auth handlers.
onMessage(st, s, kind, id, payload, token, sig, reqSig) ==
    [runListeners(handleMessage(st, kind, id, payload), st.listeners[s],
                  kind, token, sig, reqSig)
        EXCEPT !.lastResult = "none"]

\* handleMessage when the message observer at position t throws: forEach
\* stops there, the exception reaches the catch block of handleMessage, which
\* logs it, and the rest of the try block (the res, err and channel_created
\* branches) is skipped.
handleMessageObserverThrows(st, kind, id, payload, t) ==
    [st EXCEPT !.forwarded = [o \in MsgObservers |->
                                 IF o <= t THEN Append(@[o], <<kind, id, payload>>)
                                 ELSE @[o]]]

\* A frame arrives on socket s and observer t throws: the auth handlers are
\* separate listeners of the socket and run all the same.
onMessageObserverThrows(st, s, kind, id, payload, token, sig, reqSig, t) ==
    [runListeners(handleMessageObserverThrows(st, kind, id, payload, t), st.listeners[s],
                  kind, token, sig, reqSig)
        EXCEPT !.lastResult = "none"]

\* The 10 s timer of authenticate() of attempt k.
authTimeout(st, k) ==
    IF st.ws = 0 THEN crash(st) ELSE authRejected(removeListener(st, k), k)

\* A request timer that treats the timeout as a loss of the connection.
requestTimeoutForcesReconnect(st, id) ==
    IF id \in st.pendingRequests
    THEN handleReconnect(settleRequest(st, id, "timeout", <<"Request timeout">>))
    ELSE st

\* The 10 s timer of request id.
requestTimeout(st, id) ==
    IF id \in st.pendingRequests
    THEN settleRequest(st, id, "timeout", <<"Request timeout">>)
    ELSE st

\* A tick whose catch block gives up the connection.
pingTickFailureReconnects(st, signOk) ==
    IF st.status = "connected"
    THEN IF signOk /\ CanSend(st)
         THEN Transmit(st, "ping")
         ELSE handleReconnect(clearPingInterval(st))
    ELSE st

\* One tick of the ping interval.
pingTick(st, signOk) ==
    IF st.status = "connected" /\ signOk /\ CanSend(st) THEN Transmit(st, "ping") ELSE st

\* getNitroliteOnChainClient() returned (ok) or threw inside getChannelInfo.
onChainDone(st, k, ok) ==
    authResolved([st EXCEPT !.nitroliteClient = @ \/ ok], k)

----------------------------------------------------------------------------
\* Actions: one per public call, socket event or timer callback.

HasFreeSlot == created < MaxSockets

\* The codes and messages of the error envelopes the server sends.
ErrCodes == {"42"}
ErrMessages == {"bad params"}

\* Frames are delivered on open sockets (the server sends nothing on a
\* connection the client has started to close).
Receiving(s) == rs[s] = "open"

Connect ==
    /\ ~crashed
    /\ (urlValid /\ status \notin {"connected", "connecting"}) => HasFreeSlot
    /\ Commit(connect(Cur), "connect")

Close ==
    /\ ~crashed
    /\ Commit(close(Cur), "close")

SendRequest ==
    /\ ~crashed
    /\ nextRequestId <= MaxRequests
    /\ \E signOk \in BOOLEAN : Commit(sendRequest(Cur, signOk), "sendRequest")

SocketOpen ==
    /\ ~crashed
    /\ \E s \in Sockets :
         /\ rs[s] = "connecting"
         /\ Commit(openHandler(Cur, s), "open")

SocketClose ==
    /\ ~crashed
    /\ \E s \in Sockets :
         /\ rs[s] \in {"connecting", "open", "closing"}
         /\ Commit(closeHandler(Cur, s), "socketClose")

RecvChallenge ==
    /\ ~crashed
    /\ \E s \in Sockets, token \in {"good", "bad"}, sig \in {"eip712", "fallback", "fail"} :
         /\ Receiving(s)
         /\ listeners[s] # <<>>
         /\ Commit(onMessage(Cur, s, "auth_challenge", 0, <<>>, token, sig, TRUE),
                   "recvChallenge")

RecvAuthVerify ==
    /\ ~crashed
    /\ \E s \in Sockets, reqSig \in BOOLEAN :
         /\ Receiving(s)
         /\ listeners[s] # <<>>
         /\ \A i \in 1..Len(listeners[s]) : hs[listeners[s][i]].phase = "idle"
         /\ nextRequestId + Len(listeners[s]) - 1 <= MaxRequests
         /\ Commit(onMessage(Cur, s, "auth_verify", 0, <<>>, "good", "eip712", reqSig),
                   "recvAuthVerify")

RecvRes ==
    /\ ~crashed
    /\ \E s \in Sockets, id \in ReqIds, payload \in {"some", "none"} :
         /\ Receiving(s)
         /\ Commit(onMessage(Cur, s, "res", id, <<payload>>, "good", "eip712", TRUE),
                   "recvRes")

RecvErr ==
    /\ ~crashed
    /\ \E s \in Sockets, id \in 0..MaxRequests, code \in ErrCodes, message \in ErrMessages :
         /\ Receiving(s)
         /\ Commit(onMessage(Cur, s, "err", id, <<code, message>>, "good", "eip712", TRUE),
                   "recvErr")

\* A frame that is neither a response, nor an error, nor a handshake message:
\* a notification such as {type: "channel_created", channel: ...} (the field
\* this.channel it sets is read by nothing in the client).
RecvNotify ==
    /\ ~crashed
    /\ \E s \in Sockets :
         /\ Receiving(s)
         /\ Commit(onMessage(Cur, s, "notify", 0, <<"channel_created">>, "good", "eip712",
                             TRUE),
                   "recvNotify")

\* Timers of equal delay (10 s) fire in the order they were set; the
\* reconnect timer (1..5 s) may overtake them but not be overtaken by a later one.
ReconnectTimer ==
    /\ ~crashed
    /\ \E i \in 1..Len(timerQ) :
         /\ timerQ[i][1] = "reconnect"
         /\ (urlValid /\ status \notin {"connected", "connecting"}) => HasFreeSlot
         /\ Commit(connect(popTimer(Cur, i)), "reconnectTimer")

AuthTimeout ==
    /\ ~crashed
    /\ timerQ # <<>>
    /\ timerQ[1][1] = "auth"
    /\ Commit(authTimeout(popTimer(Cur, 1), timerQ[1][2]), "authTimeout")

RequestTimeout ==
    /\ ~crashed
    /\ timerQ # <<>>
    /\ timerQ[1][1] = "req"
    /\ Commit(requestTimeout(popTimer(Cur, 1), timerQ[1][2]), "requestTimeout")

PingTick ==
    /\ ~crashed
    /\ pingIntervals > 0
    /\ \E signOk \in BOOLEAN : Commit(pingTick(Cur, signOk), "pingTick")

OnChainDone ==
    /\ ~crashed
    /\ \E k \in Sockets, ok \in BOOLEAN :
         /\ hs[k].phase = "onchain"
         /\ Commit(onChainDone(Cur, k, ok), "onChainDone")

Next ==
    \/ Connect
    \/ Close
    \/ SendRequest
    \/ SocketOpen
    \/ SocketClose
    \/ RecvChallenge
    \/ RecvAuthVerify
    \/ RecvRes
    \/ RecvErr
    \/ RecvNotify
    \/ ReconnectTimer
    \/ AuthTimeout
    \/ RequestTimeout
    \/ PingTick
    \/ OnChainDone

Spec == Init /\ [][Next]_vars

\* The client with message observers other than the loggers the repository
\* registers: an observer registered with onMessage may throw.
RecvResObserverThrows ==
    /\ ~crashed
    /\ \E s \in Sockets, id \in ReqIds, payload \in {"some", "none"}, t \in MsgObservers :
         /\ Receiving(s)
         /\ Commit(onMessageObserverThrows(Cur, s, "res", id, <<payload>>, "good", "eip712",
                                            TRUE, t),
                   "recvResObserverThrows")

RecvErrObserverThrows ==
    /\ ~crashed
    /\ \E s \in Sockets, id \in 0..MaxRequests, code \in ErrCodes, message \in ErrMessages,
          t \in MsgObservers :
         /\ Receiving(s)
         /\ Commit(onMessageObserverThrows(Cur, s, "err", id, <<code, message>>, "good",
                                            "eip712", TRUE, t),
                   "recvErrObserverThrows")

NextAnyObserver ==
    \/ Next
    \/ RecvResObserverThrows
    \/ RecvErrObserverThrows

SpecAnyObserver == Init /\ [][NextAnyObserver]_vars

----------------------------------------------------------------------------
\* The module-level initializer: initializeRPCClient (impl "N") and
\* initializeClient (impl "S").  A call runs up to its first await in the turn
\* it is made in and is resumed once per await after that.

\* The module variables at the start of a turn.
Mod ==
    [rpcClient |-> rpcClient, instances |-> instances, initConnects |-> initConnects,
     pc |-> initPc, ret |-> initRet]

\* return rpcClient / return wsClient
initReturn(m, c) == [m EXCEPT !.pc[c] = "returned", !.ret[c] = m.rpcClient]

\* An exception leaves the initializer: initializeRPCClient catches it, logs
\* it and returns rpcClient; initializeClient has no try block and rejects.
initThrow(m, c) ==
    IF impl = "N" THEN initReturn(m, c) ELSE [m EXCEPT !.pc[c] = "threw"]

\* The initializer without its test of the module variable.
initializeNoGuard(m, c) ==
    IF ~envOk
    THEN initThrow(m, c)
    ELSE [m EXCEPT !.instances = @ + 1,
                   !.rpcClient = m.instances + 1,
                   !.initConnects = @ + 1,
                   !.pc[c] = "connect"]

\* The initializer up to await client.connect(): the test of the module
\* variable, the environment checks, the constructor, the observers and the
\* synchronous part of connect().
initialize(m, c) ==
    IF m.rpcClient # 0
    THEN initReturn(m, c)
    ELSE IF ~envOk
    THEN initThrow(m, c)
    ELSE [m EXCEPT !.instances = @ + 1,
                   !.rpcClient = m.instances + 1,
                   !.initConnects = @ + 1,
                   !.pc[c] = "connect"]

\* The initializer resumed after an await; ok = the awaited call returned,
\* found = the channel query returned a channel.
initResume(m, c, ok, found) ==
    IF m.pc[c] = "connect"
    THEN [m EXCEPT !.pc[c] = "onchain"]
    ELSE IF ~ok
    THEN initThrow(m, c)
    ELSE IF m.pc[c] = "onchain"
    THEN [m EXCEPT !.pc[c] = "channels"]
    ELSE IF m.pc[c] = "channels" /\ impl = "S" /\ ~found
    THEN [m EXCEPT !.pc[c] = "create"]
    ELSE initReturn(m, c)

CommitMod(m) ==
    /\ rpcClient' = m.rpcClient
    /\ instances' = m.instances
    /\ initConnects' = m.initConnects
    /\ initPc' = m.pc
    /\ initRet' = m.ret
    /\ UNCHANGED envOk
    /\ UNCHANGED sessionVars
    /\ UNCHANGED gameVars
    /\ UNCHANGED tokenVars

InitializeCall ==
    \E c \in Calls :
      /\ initPc[c] = "idle"
      /\ CommitMod(initialize(Mod, c))

InitializeResume ==
    \E c \in Calls, ok \in BOOLEAN, found \in BOOLEAN :
      /\ initPc[c] \in {"connect", "onchain", "channels", "create"}
      /\ CommitMod(initResume(Mod, c, ok, found))

InitInitializer ==
    /\ envOk \in BOOLEAN
    /\ InitModule
    /\ InitSession
    /\ urlValid
    /\ InitGame
    /\ InitTokens

NextInitializer ==
    \/ InitializeCall
    \/ InitializeResume

SpecInitializer == InitInitializer /\ [][NextInitializer]_vars

----------------------------------------------------------------------------
\* The game server (server.js with routes/gameRoutes.js, and its one-file
\* version): the connections Map and the handlers of joinRoom, startGame and
\* of the close event of a client socket.  The room manager is a collaborator
\* the handlers call; rooms holds what they read of it.

\* The server's state at the start of a turn.
Game ==
    [connections |-> connections, rooms |-> rooms, errors |-> <<>>, broadcasts |-> <<>>]

\* sendError(ws, code, msg)
sendError(g, w, code) == [g EXCEPT !.errors = Append(@, <<w, code>>)]

\* roomManager.broadcastToRoom(roomId, type, data)
broadcastToRoom(g, r, type) == [g EXCEPT !.broadcasts = Append(@, <<r, type>>)]

\* connections.has(eoa)
hasConnection(g, eoa) == \E i \in 1..Len(g.connections) : g.connections[i].eoa = eoa

\* The loop over connections.entries() that stops at the first entry whose
\* socket is w: the index of that entry, 0 when there is none.
entryOf(g, w) ==
    LET I == {i \in 1..Len(g.connections) : g.connections[i].ws = w}
    IN IF I = {} THEN 0 ELSE CHOOSE i \in I : \A j \in I : i <= j

\* connections.set(eoa, {ws, roomId})
setConnection(g, eoa, w, r) ==
    IF hasConnection(g, eoa)
    THEN [g EXCEPT !.connections =
                      [i \in 1..Len(@) |-> IF @[i].eoa = eoa
                                           THEN [eoa |-> eoa, ws |-> w, roomId |-> r]
                                           ELSE @[i]]]
    ELSE [g EXCEPT !.connections = Append(@, [eoa |-> eoa, ws |-> w, roomId |-> r])]

\* connections.delete(eoa)
deleteConnection(g, eoa) ==
    [g EXCEPT !.connections = SelectSeq(@, LAMBDA e : e.eoa # eoa)]

\* handleStartGame that creates the game state whenever the checks pass.
handleStartGameAlwaysCreates(g, w, payloadOk, roomId) ==
    IF ~payloadOk \/ roomId = 0
    THEN sendError(g, w, "INVALID_PAYLOAD")
    ELSE LET i == entryOf(g, w) IN
         IF i = 0
         THEN sendError(g, w, "NOT_AUTHENTICATED")
         ELSE IF roomId \notin RoomIds \/ ~g.rooms[roomId].exists
         THEN sendError(g, w, "ROOM_NOT_FOUND")
         ELSE LET room == g.rooms[roomId]
                  playerEoa == g.connections[i].eoa
              IN IF room.host # playerEoa
                 THEN sendError(g, w, "NOT_AUTHORIZED")
                 ELSE IF room.host = 0 \/ room.guest = 0
                 THEN sendError(g, w, "ROOM_NOT_FULL")
                 ELSE broadcastToRoom(
                        broadcastToRoom([g EXCEPT !.rooms[roomId].gameState = "fresh"],
                                        roomId, "game:started"),
                        roomId, "room:state")

\* handleStartGame(ws, payload): payloadOk = the payload is an object,
\* roomId = payload.roomId (0 = missing or falsy, NumRooms + 1 = unknown).
\* createGame(host, guest) yields a fresh game.
handleStartGame(g, w, payloadOk, roomId) ==
    IF ~payloadOk \/ roomId = 0
    THEN sendError(g, w, "INVALID_PAYLOAD")
    ELSE LET i == entryOf(g, w) IN
         IF i = 0
         THEN sendError(g, w, "NOT_AUTHENTICATED")
         ELSE IF roomId \notin RoomIds \/ ~g.rooms[roomId].exists
         THEN sendError(g, w, "ROOM_NOT_FOUND")
         ELSE LET room == g.rooms[roomId]
                  playerEoa == g.connections[i].eoa
              IN IF room.host # playerEoa
                 THEN sendError(g, w, "NOT_AUTHORIZED")
                 ELSE IF room.host = 0 \/ room.guest = 0
                 THEN sendError(g, w, "ROOM_NOT_FULL")
                 ELSE LET a == IF room.gameState = "none"
                               THEN [g EXCEPT !.rooms[roomId].gameState = "fresh"]
                               ELSE g
                      IN broadcastToRoom(broadcastToRoom(a, roomId, "game:started"),
                                         roomId, "room:state")

\* roomManager.createRoom(): a room with a new ID and no players.
createRoom(g) ==
    LET r == CHOOSE x \in RoomIds : ~g.rooms[x].exists /\ \A y \in 1..(x - 1) : g.rooms[y].exists
    IN [g |-> [g EXCEPT !.rooms[r] = [NoRoom EXCEPT !.exists = TRUE]], roomId |-> r]

\* roomManager.joinRoom(roomId, eoa, ws): the result the handler reads
\* (success, roomId, isRoomReady) and the seat the player takes; accepts =
\* the checks of the room manager other than the free seat pass.
joinRoom(g, r, eoa, accepts) ==
    IF r \in RoomIds /\ g.rooms[r].exists /\ accepts
       /\ (g.rooms[r].host = 0 \/ g.rooms[r].guest = 0)
    THEN LET a == IF g.rooms[r].host = 0
                  THEN [g EXCEPT !.rooms[r].host = eoa]
                  ELSE [g EXCEPT !.rooms[r].guest = eoa]
         IN [g |-> a, success |-> TRUE, roomId |-> r,
             isRoomReady |-> a.rooms[r].host # 0 /\ a.rooms[r].guest # 0]
    ELSE [g |-> g, success |-> FALSE, roomId |-> r, isRoomReady |-> FALSE]

\* roomManager.leaveRoom(eoa): the player gives up the seats it holds.
leaveRoom(g, eoa) ==
    [g EXCEPT !.rooms = [r \in RoomIds |->
                            [@[r] EXCEPT !.host = IF @ = eoa THEN 0 ELSE @,
                                         !.guest = IF @ = eoa THEN 0 ELSE @]]]

\* The rest of handleJoinRoom after roomManager.joinRoom returned.
joined(res, w, eoa) ==
    IF ~res.success
    THEN sendError(res.g, w, "JOIN_FAILED")
    ELSE LET a == setConnection(res.g, eoa, w, res.roomId)
             b == IF a.rooms[res.roomId].gameState # "none"
                  THEN broadcastToRoom(a, res.roomId, "room:state") ELSE a
         IN IF res.isRoomReady THEN broadcastToRoom(b, res.roomId, "room:ready") ELSE b

\* handleJoinRoom that does not test connections.has(eoa).
handleJoinRoomNoHasCheck(g, w, valid, creating, roomId, eoa, accepts) ==
    IF ~valid
    THEN sendError(g, w, "INVALID_PAYLOAD")
    ELSE IF creating
    THEN LET c == createRoom(g) IN joined(joinRoom(c.g, c.roomId, eoa, accepts), w, eoa)
    ELSE joined(joinRoom(g, roomId, eoa, accepts), w, eoa)

\* handleJoinRoom(ws, payload): valid and creating are what
\* validateJoinRoomPayload(payload) reports.
handleJoinRoom(g, w, valid, creating, roomId, eoa, accepts) ==
    IF ~valid
    THEN sendError(g, w, "INVALID_PAYLOAD")
    ELSE IF hasConnection(g, eoa)
    THEN sendError(g, w, "ALREADY_CONNECTED")
    ELSE IF creating
    THEN LET c == createRoom(g) IN joined(joinRoom(c.g, c.roomId, eoa, accepts), w, eoa)
    ELSE joined(joinRoom(g, roomId, eoa, accepts), w, eoa)

\* The close handler of client socket w.
clientClosed(g, w) ==
    LET i == entryOf(g, w) IN
    IF i = 0 THEN g
    ELSE LET eoa == g.connections[i].eoa
             r == g.connections[i].roomId
         IN deleteConnection(broadcastToRoom(leaveRoom(g, eoa), r, "room:state"), eoa)

CommitGame(g, op) ==
    /\ connections' = g.connections
    /\ rooms' = g.rooms
    /\ gErrors' = g.errors
    /\ gBroadcasts' = g.broadcasts
    /\ gOp' = op
    /\ UNCHANGED sessionVars
    /\ UNCHANGED initVars
    /\ UNCHANGED tokenVars

StartGame ==
    \E w \in Clients, payloadOk \in BOOLEAN, roomId \in 0..(NumRooms + 1) :
      CommitGame(handleStartGame(Game, w, payloadOk, roomId), "startGame")

JoinRoom ==
    \E w \in Clients, valid \in BOOLEAN, creating \in BOOLEAN, roomId \in 1..(NumRooms + 1),
       eoa \in Players, accepts \in BOOLEAN :
      /\ creating => \E r \in RoomIds : ~rooms[r].exists
      /\ CommitGame(handleJoinRoom(Game, w, valid, creating, roomId, eoa, accepts),
                    "joinRoom")

ClientClose ==
    \E w \in Clients : CommitGame(clientClosed(Game, w), "clientClose")

\* The server starts with no connection; the first room is in any state the
\* room manager may have put it in, the other room IDs are not in use yet.
InitGameServer ==
    /\ envOk = TRUE
    /\ InitModule
    /\ InitSession
    /\ impl = "S"
    /\ urlValid
    /\ connections = <<>>
    /\ \E host \in 0..NumPlayers, guest \in 0..NumPlayers,
          gs \in {"none", "fresh", "played"}, exists \in BOOLEAN :
         rooms = [r \in RoomIds |->
                    IF r = 1 /\ exists
                    THEN [exists |-> TRUE, host |-> host, guest |-> guest, gameState |-> gs]
                    ELSE NoRoom]
    /\ gErrors = <<>>
    /\ gBroadcasts = <<>>
    /\ gOp = "init"
    /\ InitTokens

NextGame ==
    \/ StartGame
    \/ JoinRoom
    \/ ClientClose

SpecGame == InitGameServer /\ [][NextGame]_vars

----------------------------------------------------------------------------
\* Token units (getTokenDecimals, parseTokenUnits, formatTokenUnits).  A
\* string is the sequence of its characters; a bigint is the sequence of its
\* decimal digits without leading zeros, which is what toString() returns and
\* what BigInt(string) reads.

\* The one key of TOKEN_DECIMALS, as it is written in the table.
UsdcPolygon ==
    <<
       "0", "x", "3", "c", "4", "9", "9", "c", "5", "4", "2", "c", "E", "F",
       "5", "E", "3", "8", "1", "1", "e", "1", "1", "9", "2", "c", "e", "7",
       "0", "d", "8", "c", "C", "0", "3", "d", "5", "c", "3", "3", "5", "9" >>

\* The USDC address on the testnet, which the table does not hold.
UsdcTestnet ==
    <<
       "0", "x", "0", "7", "8", "6", "5", "c", "6", "E", "8", "7", "B", "9",
       "F", "7", "0", "2", "5", "5", "3", "7", "7", "e", "0", "2", "4", "a",
       "c", "e", "6", "6", "3", "0", "C", "1", "E", "a", "a", "3", "7", "F" >>

\* The value of the one entry of TOKEN_DECIMALS.
UsdcDecimals == 6
DEFAULT_DECIMALS == 18

\* TOKEN_DECIMALS[key]: the configured decimals, 0 for undefined.
TOKEN_DECIMALS(key) == IF key = UsdcPolygon THEN UsdcDecimals ELSE 0

\* String.prototype.toLowerCase on the characters an address holds.
lowerChar(c) ==
    CASE c = "A" -> "a" [] c = "B" -> "b" [] c = "C" -> "c"
      [] c = "D" -> "d" [] c = "E" -> "e" [] c = "F" -> "f"
      [] c = "X" -> "x" [] OTHER -> c

toLowerCase(str) == [i \in 1..Len(str) |-> lowerChar(str[i])]

\* return TOKEN_DECIMALS[tokenAddress.toLowerCase()] || DEFAULT_DECIMALS
getTokenDecimals(tokenAddress) ==
    IF TOKEN_DECIMALS(toLowerCase(tokenAddress)) # 0
    THEN TOKEN_DECIMALS(toLowerCase(tokenAddress)) ELSE DEFAULT_DECIMALS

\* n copies of the character "0".
zeros(n) == [i \in 1..n |-> "0"]

\* str.replace(/^0+/, "")
RECURSIVE stripLeadingZeros(_)
stripLeadingZeros(str) ==
    IF str # <<>> /\ Head(str) = "0" THEN stripLeadingZeros(Tail(str)) ELSE str

\* BigInt(str) for a string of digits.
toBigInt(str) == IF stripLeadingZeros(str) = <<>> THEN <<"0">> ELSE stripLeadingZeros(str)

\* str.slice(0, -n) and str.slice(-n), n > 0.
sliceHead(str, n) == IF Len(str) <= n THEN <<>> ELSE SubSeq(str, 1, Len(str) - n)
sliceTail(str, n) == IF Len(str) <= n THEN str ELSE SubSeq(str, Len(str) - n + 1, Len(str))

\* amount.split("."): the parts before the first point and between the first
\* and the second point (<<>> for a part that is missing or empty).
pointsOf(str) == {i \in 1..Len(str) : str[i] = "."}
firstPoint(str) == CHOOSE i \in pointsOf(str) : \A j \in pointsOf(str) : i <= j
part0(str) == IF pointsOf(str) = {} THEN str ELSE SubSeq(str, 1, firstPoint(str) - 1)
part1(str) ==
    IF pointsOf(str) = {} THEN <<>>
    ELSE LET rest == SubSeq(str, firstPoint(str) + 1, Len(str))
         IN IF pointsOf(rest) = {} THEN rest ELSE SubSeq(rest, 1, firstPoint(rest) - 1)

parseTokenUnits(tokenAddress, amount) ==
    LET decimals == getTokenDecimals(tokenAddress)
        wholePart == IF part0(amount) = <<>> THEN <<"0">> ELSE part0(amount)
        fractionalPart ==
            IF Len(part1(amount)) > decimals
            THEN SubSeq(part1(amount), 1, decimals)
            ELSE part1(amount) \o zeros(decimals - Len(part1(amount)))
        wholePartWithoutLeadingZeros ==
            IF stripLeadingZeros(wholePart) = <<>> THEN <<"0">>
            ELSE stripLeadingZeros(wholePart)
    IN toBigInt(wholePartWithoutLeadingZeros \o fractionalPart)

\* formatTokenUnits without the loop that pads the digits with zeros.
formatTokenUnitsNoPad(tokenAddress, amountBigInt) ==
    LET decimals == getTokenDecimals(tokenAddress)
        amountStr == amountBigInt
        wholePart == IF sliceHead(amountStr, decimals) = <<>> THEN <<"0">>
                     ELSE sliceHead(amountStr, decimals)
    IN wholePart \o <<".">> \o sliceTail(amountStr, decimals)

formatTokenUnits(tokenAddress, amountBigInt) ==
    LET decimals == getTokenDecimals(tokenAddress)
        amountStr == IF Len(amountBigInt) <= decimals
                     THEN zeros(decimals + 1 - Len(amountBigInt)) \o amountBigInt
                     ELSE amountBigInt
        wholePart == IF sliceHead(amountStr, decimals) = <<>> THEN <<"0">>
                     ELSE sliceHead(amountStr, decimals)
    IN wholePart \o <<".">> \o sliceTail(amountStr, decimals)

\* The addresses tried: the table key as written, the same address in lower
\* case, and an address that is not in the table.
TokenAddresses == {UsdcPolygon, toLowerCase(UsdcPolygon), UsdcTestnet}

\* The amounts tried: up to MaxWholeDigits leading digits, then zeros, then up
\* to two last digits, of every length from 1 to 18 + MaxWholeDigits digits.
DigitChoices == {"0", "1", "9"}
ShortDigits(n) == UNION {[1..k -> DigitChoices] : k \in 0..n}
Amounts ==
    {toBigInt(w \o zeros(k) \o f) :
        w \in ShortDigits(MaxWholeDigits), k \in {0, 3, 4, 15, 16}, f \in ShortDigits(2)}

CommitTokens(op, decimals, text, parsed) ==
    /\ tOp' = op
    /\ tDecimals' = decimals
    /\ tText' = text
    /\ tParsed' = parsed
    /\ UNCHANGED <<tAddr, tAmount>>
    /\ UNCHANGED sessionVars
    /\ UNCHANGED initVars
    /\ UNCHANGED gameVars

Format ==
    /\ tOp = "init"
    /\ CommitTokens("format", getTokenDecimals(tAddr), formatTokenUnits(tAddr, tAmount),
                    tParsed)

Parse ==
    /\ tOp = "format"
    /\ CommitTokens("parse", tDecimals, tText, parseTokenUnits(tAddr, tText))

InitTokenUnits ==
    /\ envOk = TRUE
    /\ InitModule
    /\ InitSession
    /\ impl = "S"
    /\ urlValid
    /\ InitGame
    /\ tAddr \in TokenAddresses
    /\ tAmount \in Amounts
    /\ tDecimals = 0
    /\ tText = <<>>
    /\ tParsed = <<>>
    /\ tOp = "init"

NextTokenUnits ==
    \/ Format
    \/ Parse

SpecTokenUnits == InitTokenUnits /\ [][NextTokenUnits]_vars

----------------------------------------------------------------------------
TypeOK ==
    /\ status \in WSStatus
    /\ ws \in {0, Dead} \cup Sockets
    /\ created \in 0..MaxSockets
    /\ pendingRequests \subseteq ReqIds
    /\ nextRequestId \in 1..(MaxRequests + 1)
    /\ reconnectAttempts \in 0..maxReconnectAttempts

----------------------------------------------------------------------------
\* State functions used by the properties.

\* this.reconnectTimeout is scheduled.
ReconnectArmed == \E i \in 1..Len(timerQ) : timerQ[i][1] = "reconnect"

\* Sockets that are connecting or open.
LiveSockets == {s \in Sockets : rs[s] \in {"connecting", "open"}}

\* this.ws is null although a socket has been constructed: close() was the
\* last call that assigned this.ws (connect() assigns a socket to it).
UserClosed == ws = 0 /\ created > 0

\* Requests that were given an ID.
Issued == {id \in ReqIds : id < nextRequestId}

----------------------------------------------------------------------------
\* C1: the completion continuation of every request is invoked at most once,
\* the request is out of the pending-request table once it has been invoked,
\* and the table holds exactly the issued requests that are not yet settled.
C1_SettledAtMostOnce ==
    /\ \A id \in ReqIds : settleCount[id] <= 1
    /\ pendingRequests = {id \in Issued : settleCount[id] = 0}

\* A request answered by a response envelope while another is still pending.
C1_Witness ==
    /\ lastOp = "recvRes"
    /\ \E id \in ReqIds : settleCount[id] = 1 /\ outcome[id] = "resolved"
    /\ \E id \in ReqIds : id \in pendingRequests

\* C2: every accepted request is eventually settled; stated on final states:
\* where the process has halted and no timer will ever fire, no request is
\* left in the pending-request table.
C2_AcceptedRequestsSettle == crashed => pendingRequests = {}

\* C3: sendRequest called while the status is not connected fails with a
\* not-connected error, puts nothing on the wire and leaves the status alone.
C3_SendOnlyWhileConnected ==
    [][(lastOp' = "sendRequest" /\ status # "connected")
         => /\ lastResult' \in {"not_connected", "not_initialized", "not_open"}
            /\ sent' = <<>>
            /\ status' = status]_vars

\* C4: after close(), until the next connect() call, the status stays
\* disconnected, no reconnect is scheduled and no socket is created.
C4_NoRetryAfterClose ==
    [][(UserClosed /\ lastOp' # "connect")
         => /\ status' = "disconnected"
            /\ ~ReconnectArmed'
            /\ created' = created]_vars

\* C5: when close() returns the status is disconnected and neither the
\* keepalive timer nor the reconnect timer is armed.
C5_CloseDisconnectsAndCancels ==
    lastOp = "close" => /\ status = "disconnected"
                        /\ ~pingArmed
                        /\ ~ReconnectArmed

\* close() called in the middle of a reconnect cycle, with a socket to close.
C5_Witness ==
    /\ lastOp = "close"
    /\ reconnectAttempts > 0
    /\ \E s \in Sockets : rs[s] = "closing"

\* C6: the pending-request table is empty when close() returns.
C6_CloseSettlesPending == lastOp = "close" => pendingRequests = {}

\* C7: the session has at most one socket that is connecting or open.
C7_AtMostOneLiveSocket == Cardinality(LiveSockets) <= 1

\* C8: connect() called while the status is connecting or connected changes
\* nothing: no socket, no handler, same status, counter and timers.
C8_ConnectNoOp ==
    [][(lastOp' = "connect" /\ status \in {"connecting", "connected"})
         => /\ status' = status
            /\ ws' = ws
            /\ created' = created
            /\ rs' = rs
            /\ listeners' = listeners
            /\ hs' = hs
            /\ reconnectAttempts' = reconnectAttempts
            /\ timerQ' = timerQ
            /\ pingArmed' = pingArmed
            /\ pendingRequests' = pendingRequests
            /\ sent' = <<>>]_vars

\* connect() has just returned and the session is still connected, with its
\* one open socket (a connect() that acts leaves the status connecting).
C8_Witness ==
    /\ lastOp = "connect"
    /\ status = "connected"
    /\ ws # 0 /\ ws # Dead /\ rs[ws] = "open"
    /\ Cardinality(LiveSockets) = 1

\* C9: handshake success received while authenticating makes the status
\* connected (and leads to the counter reset and the keepalive), for both
\* client implementations.
C9_VerifySuccessConnects ==
    [][(lastOp' = "recvAuthVerify" /\ status = "authenticating")
         => status' = "connected"]_vars

\* C10: reconnect_failed is terminal for automatic behaviour: from it, a step
\* that is not a call of the public API is never the reconnect timer firing,
\* arms no reconnect timer and creates no socket.
C10_ReconnectFailedTerminal ==
    [][(status = "reconnect_failed" /\ lastOp' \notin {"connect", "close", "sendRequest"})
         => /\ lastOp' # "reconnectTimer"
            /\ ~ReconnectArmed'
            /\ created' = created]_vars

ReconnectTimers == SelectSeq(timerQ, LAMBDA e : e[1] = "reconnect")

C13_RequestIdsIncrease ==
    \A i, j \in 1..Len(issuedIds) : i < j => issuedIds[i] < issuedIds[j]

\* Two IDs were handed out, the first to a request whose signing or sending
\* failed, the second to a request accepted after a second socket was made.
C13_Witness ==
    /\ Len(issuedIds) = 2
    /\ outcome[issuedIds[1]] = "send_error"
    /\ created = 2
    /\ lastOp = "sendRequest"
    /\ lastResult = "accepted"

\* C14: no request crosses a reconnect boundary: when the reconnect timer
\* creates a socket after every earlier socket has closed (or is closing), the
\* pending-request table is empty, so nothing the new socket receives can
\* settle a request that was sent on an earlier one.
C14_NoPendingAcrossReconnect ==
    [][(lastOp' = "reconnectTimer" /\ created' > created /\ LiveSockets = {})
         => pendingRequests' = {}]_vars

\* C15: a handshake that is rejected by an error envelope or by its 10 s
\* timer while the status is authenticating (its socket open, verification
\* not yet received) leaves the status auth_failed and its own socket closing.
C15_AuthFailureClosesTransport ==
    [][\A k \in Sockets :
          (/\ status = "authenticating"
           /\ rs[k] = "open"
           /\ hs[k].phase = "idle"
           /\ ~hs[k].settled
           /\ lastOp' \in {"authTimeout", "recvErr"}
           /\ hs'[k].settled)
          => /\ status' = "auth_failed"
             /\ rs'[k] = "closing"]_vars

\* C16: a challenge with no extractable token (empty, or holding '[' or '{')
\* is never answered with a verify envelope: the turn that receives it on
\* socket s leaves the status auth_failed and the socket closing.
C16_BadChallengeFailsHandshake ==
    [][\A s \in Sockets, sig \in {"eip712", "fallback", "fail"} :
          (/\ lastOp' = "recvChallenge"
           /\ Receiving(s)
           /\ listeners[s] # <<>>
           /\ ~crashed
           /\ Commit(onMessage(Cur, s, "auth_challenge", 0, <<>>, "bad", sig, TRUE),
                     "recvChallenge"))
          => /\ \A i \in 1..Len(sent') : sent'[i] \notin VerifyFrames
             /\ status' = "auth_failed"
             /\ rs'[s] = "closing"]_vars

\* C17: the turn that receives a challenge with a good token signs with the
\* typed-data (EIP-712) scheme when that scheme works, with the plain hash
\* scheme only when the typed-data scheme threw, and when both threw it sends
\* no verify envelope and the signer's error is the combined one.
C17_StructuredThenFallback ==
    [][\A s \in Sockets, sig \in {"eip712", "fallback", "fail"} :
          (/\ lastOp' = "recvChallenge"
           /\ Receiving(s)
           /\ listeners[s] # <<>>
           /\ ~crashed
           /\ Commit(onMessage(Cur, s, "auth_challenge", 0, <<>>, "good", sig, TRUE),
                     "recvChallenge"))
          => /\ sig = "eip712"
                  => \A i \in 1..Len(sent') : sent'[i] # "auth_verify_hash"
             /\ sig = "fallback"
                  => \A i \in 1..Len(sent') : sent'[i] # "auth_verify_eip712"
             /\ sig = "fail"
                  => /\ \A i \in 1..Len(sent') : sent'[i] \notin VerifyFrames
                     /\ thrown' = "both_failed"]_vars

\* The values a sequence holds.
Range(f) == {f[i] : i \in DOMAIN f}

\* C18: a response envelope {res:[id, method, payload, ts]} whose id is in the
\* pending-request table resolves that request's caller with payload, removes
\* the entry, settles no other request and leaves the status as it was.
C18_ResponseResolvesCaller ==
    [][\A s \in Sockets, id \in ReqIds, payload \in {"some", "none"} :
          (/\ lastOp' = "recvRes"
           /\ Receiving(s)
           /\ ~crashed
           /\ id \in pendingRequests
           /\ Commit(onMessage(Cur, s, "res", id, <<payload>>, "good", "eip712", TRUE),
                     "recvRes"))
          => /\ delivered' = << <<id, "resolved", <<payload>>>> >>
             /\ pendingRequests' = pendingRequests \ {id}
             /\ \A j \in ReqIds \ {id} :
                  settleCount'[j] = settleCount[j] /\ outcome'[j] = outcome[j]
             /\ status' = status]_vars

\* Request 1 has just been resolved with its payload while request 2 is
\* still pending on the connected session.
C18_Witness ==
    /\ lastOp = "recvRes"
    /\ delivered = << <<1, "resolved", <<"some">>>> >>
    /\ outcome[1] = "resolved"
    /\ pendingRequests = {2}
    /\ status = "connected"

\* C19: an error envelope {err:[id, code, message, ts]} whose id is in the
\* pending-request table rejects that request's caller, and no other, with
\* an error that holds the envelope's code and message, and removes the entry.
C19_ErrorRejectsCaller ==
    [][\A s \in Sockets, id \in ReqIds, code \in ErrCodes, message \in ErrMessages :
          (/\ lastOp' = "recvErr"
           /\ Receiving(s)
           /\ ~crashed
           /\ id \in pendingRequests
           /\ Commit(onMessage(Cur, s, "err", id, <<code, message>>, "good", "eip712", TRUE),
                     "recvErr"))
          => /\ Len(delivered') = 1
             /\ delivered'[1][1] = id
             /\ delivered'[1][2] = "rejected"
             /\ {code, message} \subseteq Range(delivered'[1][3])
             /\ pendingRequests' = pendingRequests \ {id}
             /\ \A j \in ReqIds \ {id} :
                  settleCount'[j] = settleCount[j] /\ outcome'[j] = outcome[j]]_vars

\* Request 2 has just been rejected with code 42 and message "bad params".
C19_Witness ==
    /\ lastOp = "recvErr"
    /\ Len(delivered) = 1
    /\ delivered[1][1] = 2
    /\ delivered[1][2] = "rejected"
    /\ {"42", "bad params"} \subseteq Range(delivered[1][3])
    /\ outcome[2] = "rejected"
    /\ 2 \notin pendingRequests

\* What a dropped envelope leaves alone: the table and the callers.
RequestsUntouched ==
    /\ pendingRequests' = pendingRequests
    /\ settleCount' = settleCount
    /\ outcome' = outcome
    /\ delivered' = <<>>
    /\ ~crashed'

\* C20 as stated: a response or error envelope whose ID is not in the
\* pending-request table changes neither the table, nor any caller's outcome,
\* nor the status, nor the timers.
C20_UnknownIdDropped ==
    [][/\ \A s \in Sockets, id \in ReqIds, payload \in {"some", "none"} :
            (/\ lastOp' = "recvRes"
             /\ Receiving(s)
             /\ ~crashed
             /\ id \notin pendingRequests
             /\ Commit(onMessage(Cur, s, "res", id, <<payload>>, "good", "eip712", TRUE),
                       "recvRes"))
            => RequestsUntouched /\ status' = status /\ timerQ' = timerQ
       /\ \A s \in Sockets, id \in 0..MaxRequests, code \in ErrCodes,
             message \in ErrMessages :
            (/\ lastOp' = "recvErr"
             /\ Receiving(s)
             /\ ~crashed
             /\ id \notin pendingRequests
             /\ Commit(onMessage(Cur, s, "err", id, <<code, message>>, "good", "eip712", TRUE),
                       "recvErr"))
            => RequestsUntouched /\ status' = status /\ timerQ' = timerQ]_vars

\* C20 as amended: such an envelope, arriving on a socket on which no
\* handshake handler is registered, changes neither the table, nor any
\* caller's outcome, nor the status, nor the timers.  (While a handshake is in
\* progress on the socket its handler gets every frame too, and takes an error
\* envelope, whatever its ID, as the rejection of the handshake.)
C20_UnknownIdDroppedOutsideHandshake ==
    [][/\ \A s \in Sockets, id \in ReqIds, payload \in {"some", "none"} :
            (/\ lastOp' = "recvRes"
             /\ Receiving(s)
             /\ ~crashed
             /\ listeners[s] = <<>>
             /\ id \notin pendingRequests
             /\ Commit(onMessage(Cur, s, "res", id, <<payload>>, "good", "eip712", TRUE),
                       "recvRes"))
            => RequestsUntouched /\ status' = status /\ timerQ' = timerQ
       /\ \A s \in Sockets, id \in 0..MaxRequests, code \in ErrCodes,
             message \in ErrMessages :
            (/\ lastOp' = "recvErr"
             /\ Receiving(s)
             /\ ~crashed
             /\ listeners[s] = <<>>
             /\ id \notin pendingRequests
             /\ Commit(onMessage(Cur, s, "err", id, <<code, message>>, "good", "eip712", TRUE),
                       "recvErr"))
            => RequestsUntouched /\ status' = status /\ timerQ' = timerQ]_vars

\* An error envelope was dropped on the connected session, outside any
\* handshake, after request 1 had timed out and while request 2 is pending.
C20_Witness ==
    /\ lastOp = "recvErr"
    /\ delivered = <<>>
    /\ status = "connected"
    /\ \A s \in Sockets : listeners[s] = <<>>
    /\ outcome[1] = "timeout"
    /\ pendingRequests = {2}

\* C21: the 10 s timer of a request that is still pending rejects that
\* request's caller with a timeout error and removes the entry, and nothing
\* else: no other request is settled, the status and the reconnect counter
\* are as before.
C21_TimeoutIsRequestScoped ==
    [][(/\ lastOp' = "requestTimeout"
        /\ timerQ # <<>>
        /\ timerQ[1][1] = "req"
        /\ timerQ[1][2] \in pendingRequests)
         => /\ delivered' = << <<timerQ[1][2], "timeout", <<"Request timeout">>>> >>
            /\ pendingRequests' = pendingRequests \ {timerQ[1][2]}
            /\ \A j \in ReqIds \ {timerQ[1][2]} :
                 settleCount'[j] = settleCount[j] /\ outcome'[j] = outcome[j]
            /\ status' = status
            /\ reconnectAttempts' = reconnectAttempts]_vars

\* Request 1 has just timed out on the connected session while request 2 is
\* still pending.
C21_Witness ==
    /\ lastOp = "requestTimeout"
    /\ delivered = << <<1, "timeout", <<"Request timeout">>>> >>
    /\ outcome[1] = "timeout"
    /\ pendingRequests = {2}
    /\ status = "connected"

\* C22: the keepalive timer is armed only while the status is connected.
C22_KeepaliveOnlyWhileConnected == pingArmed => status = "connected"

\* C23: a keepalive tick whose signing or sending fails changes neither the
\* status, nor the reconnect counter, nor the socket, nor the timers: the
\* keepalive stays armed, no reconnect is scheduled, nothing is sent.
C23_KeepaliveFailureIsLocal ==
    [][\A signOk \in BOOLEAN :
          (/\ lastOp' = "pingTick"
           /\ pingArmed
           /\ ~crashed
           /\ status = "connected"
           /\ ~signOk \/ ~CanSend(Cur)
           /\ Commit(pingTick(Cur, signOk), "pingTick"))
          => /\ status' = status
             /\ reconnectAttempts' = reconnectAttempts
             /\ ws' = ws
             /\ rs' = rs
             /\ pingArmed'
             /\ timerQ' = timerQ
             /\ sent' = <<>>
             /\ ~crashed']_vars

\* A tick on the connected session put nothing on the wire although the
\* socket is open: signing the ping failed.
C23_Witness ==
    /\ lastOp = "pingTick"
    /\ status = "connected"
    /\ pingArmed
    /\ sent = <<>>
    /\ ws \in Sockets
    /\ rs[ws] = "open"

\* C24: no callback of the client ends in an unhandled fault.
C24_NoUnhandledFault == ~crashed

\* C25: in every turn, each status observer was called once for every
\* setStatus call of the turn, with the value assigned and in the order of the
\* assignments, and the last value it saw is the status.
C25_ObserversSeeEveryStatus ==
    /\ \A o \in Observers : seen[o] = assigned
    /\ assigned # <<>> => status = assigned[Len(assigned)]

\* The close event of a socket: two assignments in one turn, both observed.
C25_Witness ==
    /\ lastOp = "socketClose"
    /\ assigned = <<"disconnected", "reconnecting">>
    /\ \A o \in Observers : seen[o] = <<"disconnected", "reconnecting">>

\* What every message observer was called with when frame f was forwarded.
ForwardedOnce(f) == forwarded' = [o \in MsgObservers |-> <<f>>]

\* C26: a frame that is neither a handshake message nor a response or error
\* for a tracked request (a notification at any time; a response or error
\* with an untracked ID on a socket with no handshake in progress) is handed
\* unchanged to every message observer exactly once and changes neither the
\* pending-request table nor the status.
C26_NotificationsForwarded ==
    [][/\ \A s \in Sockets :
            (/\ lastOp' = "recvNotify"
             /\ Receiving(s)
             /\ ~crashed
             /\ Commit(onMessage(Cur, s, "notify", 0, <<"channel_created">>, "good",
                                 "eip712", TRUE),
                       "recvNotify"))
            => /\ ForwardedOnce(<<"notify", 0, <<"channel_created">>>>)
               /\ pendingRequests' = pendingRequests
               /\ status' = status
       /\ \A s \in Sockets, id \in ReqIds, payload \in {"some", "none"} :
            (/\ lastOp' = "recvRes"
             /\ Receiving(s)
             /\ ~crashed
             /\ listeners[s] = <<>>
             /\ id \notin pendingRequests
             /\ Commit(onMessage(Cur, s, "res", id, <<payload>>, "good", "eip712", TRUE),
                       "recvRes"))
            => /\ ForwardedOnce(<<"res", id, <<payload>>>>)
               /\ pendingRequests' = pendingRequests
               /\ status' = status
       /\ \A s \in Sockets, id \in 0..MaxRequests, code \in ErrCodes,
             message \in ErrMessages :
            (/\ lastOp' = "recvErr"
             /\ Receiving(s)
             /\ ~crashed
             /\ listeners[s] = <<>>
             /\ id \notin pendingRequests
             /\ Commit(onMessage(Cur, s, "err", id, <<code, message>>, "good", "eip712", TRUE),
                     "recvErr"))
            => /\ ForwardedOnce(<<"err", id, <<code, message>>>>)
               /\ pendingRequests' = pendingRequests
               /\ status' = status]_vars

\* A notification was forwarded on the connected session while a request is
\* pending.
C26_Witness ==
    /\ lastOp = "recvNotify"
    /\ forwarded = [o \in MsgObservers |-> << <<"notify", 0, <<"channel_created">>>> >>]
    /\ pendingRequests # {}
    /\ status = "connected"

\* The handshake of socket k has succeeded: its auth_verify frame was handled
\* (awaiting the channel query, the on-chain lookup, or finished).
VerifiedPhases == {"chan", "onchain", "done"}
Verified(k) == hs[k].phase \in VerifiedPhases

\* C27: the channel-directory query is put on the wire only once the
\* handshake of the current transport has succeeded, whoever calls
\* getChannelInfo and whenever (getChannelInfo is sendRequest("get_channels",
\* ...); the startup path calls it at some moment after connect() returned),
\* and the query made on handshake success is actually sent: when the verify
\* frame of the current socket arrives while authenticating and the request
\* can be signed, a request goes on the wire.
C27_ChannelQueryOnlyOnceAuthenticated ==
    [][/\ ("req" \in Range(sent')) => (ws' \in Sockets /\ hs'[ws'].phase \in VerifiedPhases)
       /\ \A s \in Sockets :
            (/\ lastOp' = "recvAuthVerify"
             /\ Receiving(s)
             /\ s = ws
             /\ status = "authenticating"
             /\ listeners[s] = <<s>>
             /\ hs[s].phase = "idle"
             /\ ~hs[s].settled
             /\ nextRequestId <= MaxRequests
             /\ ~crashed
             /\ Commit(onMessage(Cur, s, "auth_verify", 0, <<>>, "good", "eip712", TRUE),
                       "recvAuthVerify"))
            => "req" \in Range(sent')]_vars

\* C28: the status becomes connected only as the result of a handshake
\* success received on the current transport while the status is
\* authenticating; no other operation sets the status to connected.
C28_ConnectedOnlyByHandshakeSuccess ==
    [][(status' = "connected" /\ status # "connected")
       => /\ lastOp' = "recvAuthVerify"
          /\ status = "authenticating"
          /\ ws \in Sockets
          /\ hs[ws].phase = "idle"
          /\ hs'[ws].phase \in VerifiedPhases]_vars

\* C29: a handshake attempt affects only the transport it was started on:
\* when the 10 s timer of a handshake fires after its socket has closed and a
\* newer socket has taken its place, the status is not changed (in particular
\* not set to auth_failed) and the newer socket is not closed.
C29_HandshakeScopedToItsTransport ==
    [][\A k \in Sockets :
          (/\ lastOp' = "authTimeout"
           /\ timerQ # <<>>
           /\ timerQ[1] = <<"auth", k>>
           /\ rs[k] = "closed"
           /\ ws \in Sockets
           /\ ws # k)
          => /\ status' = status
             /\ status' # "auth_failed"
             /\ rs'[ws] = rs[ws]]_vars

\* C30: a keepalive message goes on the wire only in a tick that found the
\* status connected, and only on the open socket whose handshake succeeded
\* (never on a socket that is closed, still authenticating or newly created).
C30_PingOnlyOnAuthenticatedSocket ==
    [][("ping" \in Range(sent'))
       => /\ lastOp' = "pingTick"
          /\ status = "connected"
          /\ ws \in Sockets
          /\ rs[ws] = "open"
          /\ Verified(ws)]_vars

\* C31: at every reachable state at most one keepalive interval and at most
\* one reconnect timer are scheduled, and the scheduled interval is the one
\* this.pingInterval refers to.
C31_AtMostOneTimerOfEachKind ==
    /\ pingIntervals <= 1
    /\ pingIntervals = (IF pingArmed THEN 1 ELSE 0)
    /\ Len(ReconnectTimers) <= 1

\* Two handshakes have succeeded on two sockets that are both still open, so
\* startPingInterval ran while an interval was scheduled.
C31_Witness ==
    /\ created = 2
    /\ \A k \in Sockets : rs[k] = "open" /\ hs[k].phase = "done" /\ hs[k].settled
    /\ pingIntervals = 1
    /\ pingArmed

\* What sendRequest throws when one of its precondition checks refuses the call.
Refusals == {"not_initialized", "not_open", "not_connected"}

\* C32: a sendRequest call refused by its precondition checks consumes no
\* request ID, creates no pending entry, arms no timeout, settles nothing
\* and sends nothing; the same holds for the channel query that
\* ServerWebSocketClient refuses while it handles auth_verify.
C32_RefusedSendLeavesNoTrace ==
    [][/\ (lastOp' = "sendRequest" /\ lastResult' \in Refusals)
          => /\ nextRequestId' = nextRequestId
             /\ pendingRequests' = pendingRequests
             /\ timerQ' = timerQ
             /\ issuedIds' = issuedIds
             /\ delivered' = <<>>
             /\ sent' = <<>>
       /\ (lastOp' = "recvAuthVerify" /\ impl = "S")
          => /\ nextRequestId' = nextRequestId
             /\ pendingRequests' = pendingRequests
             /\ issuedIds' = issuedIds
             /\ "req" \notin Range(sent')]_vars

\* A call refused because the socket is no longer open, after an earlier call
\* was accepted and is still pending.
C32_Witness ==
    /\ lastOp = "sendRequest"
    /\ lastResult = "not_open"
    /\ nextRequestId = 2
    /\ pendingRequests = {1}
    /\ issuedIds = <<1>>

\* C33: a response or error envelope for a tracked request settles that
\* request whatever the message observers do: when an observer throws, the
\* frame still takes the request out of the table and resolves or rejects its
\* caller.
C33_ObserverFaultDoesNotBlockSettlement ==
    [][\A s \in Sockets, id \in ReqIds, t \in MsgObservers :
          /\ \A payload \in {"some", "none"} :
               (/\ lastOp' = "recvResObserverThrows"
                /\ Receiving(s)
                /\ id \in pendingRequests
                /\ ~crashed
                /\ Commit(onMessageObserverThrows(Cur, s, "res", id, <<payload>>, "good",
                                                   "eip712", TRUE, t),
                          "recvResObserverThrows"))
               => /\ id \notin pendingRequests'
                  /\ <<id, "resolved", <<payload>>>> \in Range(delivered')
          /\ \A code \in ErrCodes, message \in ErrMessages :
               (/\ lastOp' = "recvErrObserverThrows"
                /\ Receiving(s)
                /\ id \in pendingRequests
                /\ listeners[s] = <<>>
                /\ ~crashed
                /\ Commit(onMessageObserverThrows(Cur, s, "err", id, <<code, message>>,
                                                   "good", "eip712", TRUE, t),
                          "recvErrObserverThrows"))
               => /\ id \notin pendingRequests'
                  /\ <<id, "rejected", errorOf(code, message)>> \in Range(delivered')]_vars

\* The client object of the given class in the current state.
As(c) == [Cur EXCEPT !.impl = c]

\* What a session shows of one turn: the status values it went through, the
\* requests it settled and how, and the status it ended in.
SameTurn(n, s) ==
    /\ n.status = s.status
    /\ n.assigned = s.assigned
    /\ n.delivered = s.delivered

\* The state right after the first socket has opened.  Up to here the two
\* classes have run the same code on the same events (connect, then the open
\* handler up to the auth_request), so both are in this state after the same
\* events.
AfterFirstOpen ==
    /\ lastOp = "open"
    /\ ~crashed
    /\ created = 1
    /\ ws = 1
    /\ rs[1] = "open"
    /\ status = "authenticating"
    /\ listeners[1] = <<1>>
    /\ nextRequestId = 1
    /\ reconnectAttempts = 0

\* C34: NitroliteRPCClient and ServerWebSocketClient are equivalent as
\* session state machines: from the state both are in after the first socket
\* has opened, the same next event (the auth_verify frame, a challenge frame,
\* a sendRequest call) takes both through the same status values to the same
\* status and settles the same requests with the same outcomes.
C34_ClientsEquivalent ==
    AfterFirstOpen =>
        /\ \A reqSig \in BOOLEAN :
             SameTurn(onMessage(As("N"), 1, "auth_verify", 0, <<>>, "good", "eip712", reqSig),
                      onMessage(As("S"), 1, "auth_verify", 0, <<>>, "good", "eip712", reqSig))
        /\ \A token \in {"good", "bad"}, sig \in {"eip712", "fallback", "fail"} :
             SameTurn(onMessage(As("N"), 1, "auth_challenge", 0, <<>>, token, sig, TRUE),
                      onMessage(As("S"), 1, "auth_challenge", 0, <<>>, token, sig, TRUE))
        /\ \A signOk \in BOOLEAN :
             SameTurn(sendRequest(As("N"), signOk), sendRequest(As("S"), signOk))

\* C35: the module-level initializer constructs at most one client object:
\* any number of calls, overlapping or not, return the same value, which is
\* the one object when one was constructed, and connect() is called once
\* between them.
C35_SingleClientInstance ==
    /\ instances <= 1
    /\ initConnects <= 1
    /\ rpcClient = instances
    /\ \A c \in Calls : initPc[c] = "returned" => initRet[c] = rpcClient

\* A second call returned the object while the first call, which constructed
\* it, is still suspended in an await.
C35_Witness ==
    /\ \E c \in Calls : initPc[c] \in {"connect", "onchain", "channels"}
    /\ \E c \in Calls : initPc[c] = "returned" /\ initRet[c] = 1
    /\ instances = 1
    /\ initConnects = 1

\* The requests the claim says are refused: bad payload, unknown socket,
\* unknown room, requester not the host of the room, room not full.
StartRefused(w, payloadOk, roomId) ==
    \/ ~payloadOk
    \/ roomId = 0
    \/ \A i \in 1..Len(connections) : connections[i].ws # w
    \/ roomId \notin RoomIds
    \/ ~rooms[roomId].exists
    \/ \A i \in 1..Len(connections) :
         connections[i].ws = w => connections[i].eoa # rooms[roomId].host
    \/ rooms[roomId].host = 0
    \/ rooms[roomId].guest = 0

\* C36: handleStartGame creates a game state only when the requester is the
\* host of the room and the room has a host and a guest; a refused request
\* sends exactly one error to the requester, broadcasts nothing and leaves
\* rooms and connections unchanged; a room that has a game state keeps it.
C36_StartGameGuarded ==
    [][\A w \in Clients, payloadOk \in BOOLEAN, roomId \in 0..(NumRooms + 1) :
          (/\ gOp' = "startGame"
           /\ CommitGame(handleStartGame(Game, w, payloadOk, roomId), "startGame"))
          => /\ rooms' # rooms => ~StartRefused(w, payloadOk, roomId)
             /\ StartRefused(w, payloadOk, roomId)
                => /\ Len(gErrors') = 1
                   /\ gErrors'[1][1] = w
                   /\ gBroadcasts' = <<>>
                   /\ rooms' = rooms
                   /\ connections' = connections
             /\ \A r \in RoomIds :
                  rooms[r].gameState # "none" => rooms'[r].gameState = rooms[r].gameState
             /\ \A r \in RoomIds :
                  rooms'[r] # rooms[r]
                  => r = roomId /\ rooms'[r] = [rooms[r] EXCEPT !.gameState = "fresh"]]_vars

\* The host of a room created and filled by two joins has started the game.
C36_Witness ==
    /\ gOp = "startGame"
    /\ rooms[2].exists
    /\ rooms[2].gameState = "fresh"
    /\ rooms[2].host # 0
    /\ rooms[2].guest # 0
    /\ gBroadcasts = << <<2, "game:started">>, <<2, "room:state">> >>
    /\ gErrors = <<>>

\* No two entries of the map c have the same address or the same socket.
OnePerPlayerAndSocket(c) ==
    \A i, j \in 1..Len(c) :
       i # j => c[i].eoa # c[j].eoa /\ c[i].ws # c[j].ws

\* C37: the connections map holds at most one entry per player address and
\* at most one per socket; a joinRoom for an address that is in the map is
\* rejected with ALREADY_CONNECTED and no room is created or joined; when a
\* socket closes no entry of that socket is left, so its address can join again.
C37_ConnectionsOnePerPlayerAndSocket ==
    [][/\ OnePerPlayerAndSocket(connections')
       /\ \A w \in Clients, creating \in BOOLEAN, roomId \in 1..(NumRooms + 1),
             eoa \in Players, accepts \in BOOLEAN :
            (/\ gOp' = "joinRoom"
             /\ hasConnection(Game, eoa)
             /\ CommitGame(handleJoinRoom(Game, w, TRUE, creating, roomId, eoa, accepts),
                           "joinRoom"))
            => /\ gErrors' = << <<w, "ALREADY_CONNECTED">> >>
               /\ rooms' = rooms
               /\ connections' = connections
       /\ \A w \in Clients :
            (/\ gOp' = "clientClose"
             /\ CommitGame(clientClosed(Game, w), "clientClose"))
            => \A i \in 1..Len(connections') : connections'[i].ws # w]_vars

\* C38: getTokenDecimals returns the decimals configured in TOKEN_DECIMALS
\* for a listed token (6 for the USDC address as the table writes it) and the
\* default 18 for every address that is not listed.
C38_DecimalsOfListedToken ==
    tOp # "init"
    => tDecimals = (IF tAddr = UsdcPolygon THEN UsdcDecimals ELSE DEFAULT_DECIMALS)

\* C39: parseTokenUnits undoes formatTokenUnits on contract units, and the
\* formatted text has exactly as many digits after its one point as the token
\* has decimals.
C39_ParseInvertsFormat ==
    /\ tOp # "init"
       => /\ Cardinality(pointsOf(tText)) = 1
          /\ Len(tText) - firstPoint(tText) = getTokenDecimals(tAddr)
          /\ firstPoint(tText) > 1
    /\ tOp = "parse" => tParsed = tAmount

\* An amount with a whole part, zeros and a last digit, formatted and parsed.
C39_Witness ==
    /\ tOp = "parse"
    /\ tAmount = <<"1", "9">> \o zeros(16) \o <<"0", "1">>
    /\ tText = <<"1", "9", ".">> \o zeros(16) \o <<"0", "1">>
    /\ tParsed = tAmount

============================================================================
